---- MODULE Spec2Model ----
(***************************************************************************)
(* State-machine model of the HC-SR04 driver (src/src/lib.rs).             *)
(*                                                                         *)
(* A u32 of the driver is the pair <<hi, lo>> of its two 16-bit halves     *)
(* (value hi * 2^16 + lo): TLC's integers are 32-bit signed, so the pair   *)
(* keeps the full 32-bit width of the timestamps, of the frequency and of  *)
(* the arithmetic of distance().                                           *)
(***************************************************************************)
EXTENDS Integers, Sequences, FiniteSets

VARIABLES
    self,             \* the HcSr04 struct: pin, mode, hz, t1, t2
    overflow_checks,  \* build profile: TRUE when u32 `*` panics on overflow (debug)
    call,             \* the entry point called last, with its argument
    ret,              \* what that call returned, or that it panicked
    io,               \* pin and delay operations performed by that call, in order
    pre,              \* the struct, the call and the return before that call
    pulses,           \* trigger pulses emitted so far
    readys,           \* polls that returned Ok(..) so far
    edges,            \* timestamps accepted by capture since the last trigger pulse
    late,             \* timedout calls accepted in Completed since the last trigger pulse
    cuts,             \* timedout calls accepted in Triggered or Measurement since then
    task,             \* the poll in progress, where its steps can be preempted
    echo              \* the echo line of the sensor, where its edges are followed

vars == <<self, overflow_checks, call, ret, io, pre, pulses, readys, edges, late,
          cuts, task, echo>>

----------------------------------------------------------------------------
(* u32 arithmetic on halves *)

Half == 2 ^ 16

U32(hi, lo) == <<hi, lo>>

\* n < 2^31 as a u32
FromNat(n) == <<n \div Half, n % Half>>

\* a u32 below 2^31 as a number
ToNat(a) == a[1] * Half + a[2]

Zero == U32(0, 0)

MaxU32 == U32(Half - 1, Half - 1)

\* subtraction that takes the distance between the two values: no wraparound
abs_sub(a, b) ==
    LET swap == a[1] < b[1] \/ (a[1] = b[1] /\ a[2] < b[2])
        x == IF swap THEN b ELSE a
        y == IF swap THEN a ELSE b
        borrow == IF x[2] < y[2] THEN 1 ELSE 0
    IN  <<x[1] - y[1] - borrow, x[2] + borrow * Half - y[2]>>

\* u32::wrapping_sub: (a - b) mod 2^32
wrapping_sub(a, b) ==
    LET lo == a[2] - b[2]
        borrow == IF lo < 0 THEN 1 ELSE 0
        hi == a[1] - b[1] - borrow
    IN  <<hi % Half, lo % Half>>

\* the high half of a * k before it is cut to 16 bits (k < 2^15)
MulHigh(a, k) == a[1] * k + ((a[2] * k) \div Half)

\* u32 `*` overflows: a * k >= 2^32
MulOverflows(a, k) == MulHigh(a, k) >= Half

\* u32 `*` with overflow checks off: (a * k) mod 2^32
WrappingMul(a, k) == <<MulHigh(a, k) % Half, (a[2] * k) % Half>>

\* the bytes of a u32, most significant first
Bytes(a) == <<a[1] \div 256, a[1] % 256, a[2] \div 256, a[2] % 256>>

\* long division by q (0 < q < 2^23): the remainder after the first n bytes
RECURSIVE DivRem(_, _, _)
DivRem(b, q, n) == IF n = 0 THEN 0 ELSE (DivRem(b, q, n - 1) * 256 + b[n]) % q

\* the n-th quotient byte
DivDigit(b, q, n) == (DivRem(b, q, n - 1) * 256 + b[n]) \div q

\* u32 `/`: a / q rounded toward zero, for a divisor 0 < q < 2^23
DivU32(a, q) ==
    LET b == Bytes(a)
    IN  <<DivDigit(b, q, 1) * 256 + DivDigit(b, q, 2),
          DivDigit(b, q, 3) * 256 + DivDigit(b, q, 4)>>

----------------------------------------------------------------------------
(* Values *)

Modes == {"Idle", "Triggered", "Measurement", "Completed", "Timedout"}

\* 171_605 of the distance expression
SoundFactor == 171605

\* 1000 of the distance expression
Kilo == 1000

\* pulse width passed to delay_us
TriggerPulseUs == 10

\* return values
WouldBlock == [kind |-> "WouldBlock", d |-> Zero]
ReadyNone == [kind |-> "OkNone", d |-> Zero]
ReadySome(d) == [kind |-> "OkSome", d |-> d]
OkUnit == [kind |-> "Ok", d |-> Zero]
WrongMode == [kind |-> "WrongMode", d |-> Zero]
Panicked == [kind |-> "panic", d |-> Zero]
Constructed == [kind |-> "Self", d |-> Zero]

NoTs == Zero

\* operations on the output pin and on the delay provider
PinHigh == <<"set_high">>
PinLow == <<"set_low">>
DelayUs(us) == <<"delay_us", us>>

IsReady(r) == r.kind \in {"OkSome", "OkNone"}

----------------------------------------------------------------------------
(* The driver: each method maps the struct to the struct after the call,   *)
(* the returned value and the pin/delay operations performed.              *)

\* new that does not drive the pin low
new_leaves_pin(frequency) ==
    [self |-> [pin |-> "low", mode |-> "Idle", hz |-> frequency, t1 |-> Zero, t2 |-> Zero],
     ret  |-> Constructed,
     io   |-> <<>>]

\* HcSr04::new
new(frequency) ==
    [self |-> [pin |-> "low", mode |-> "Idle", hz |-> frequency, t1 |-> Zero, t2 |-> Zero],
     ret  |-> Constructed,
     io   |-> <<PinLow>>]

\* trigger that leaves the pin high: the closing set_low is missing
trigger_no_low(s) ==
    [self |-> [s EXCEPT !.pin = "high", !.mode = "Triggered"],
     io   |-> <<PinHigh, DelayUs(TriggerPulseUs)>>]

\* HcSr04::trigger
trigger(s) ==
    [self |-> [s EXCEPT !.pin = "low", !.mode = "Triggered"],
     io   |-> <<PinHigh, DelayUs(TriggerPulseUs), PinLow>>]

\* reset that forgets the edge ticks
reset_keeps_ticks(s) == [s EXCEPT !.mode = "Idle"]

\* reset that forgets the mode
reset_keeps_mode(s) == [s EXCEPT !.t1 = Zero, !.t2 = Zero]

\* HcSr04::reset
reset(s) == [s EXCEPT !.t1 = Zero, !.t2 = Zero, !.mode = "Idle"]

\* the Completed arm's expression: Panicked, or the u32 it evaluates to
distance_mm(s, checks) ==
    LET elapsed == wrapping_sub(s.t2, s.t1)
        factor == SoundFactor \div Kilo
        divisor == ToNat(DivU32(s.hz, Kilo))
    IN  IF checks /\ MulOverflows(elapsed, factor) THEN Panicked
        ELSE IF divisor = 0 THEN Panicked
        ELSE ReadySome(DivU32(WrappingMul(elapsed, factor), divisor))

\* a waiting arm that stores the mode it matched on
wait_arm_stores_mode(s, m) == [s EXCEPT !.mode = m]

\* the Triggered and Measurement arms of distance: the struct as they leave it
wait_arm(s, m) == s

\* distance that abandons a measurement polled before its falling edge
distance_abandons(s, checks) ==
    CASE s.mode = "Idle" ->
            [self |-> trigger(s).self, ret |-> WouldBlock, io |-> trigger(s).io]
      [] s.mode = "Triggered" ->
            [self |-> s, ret |-> WouldBlock, io |-> <<>>]
      [] s.mode = "Measurement" ->
            [self |-> reset(s), ret |-> WouldBlock, io |-> <<>>]
      [] s.mode = "Timedout" ->
            [self |-> reset(s), ret |-> ReadyNone, io |-> <<>>]
      [] s.mode = "Completed" ->
            LET d == distance_mm(s, checks)
            IN  IF d = Panicked
                THEN [self |-> s, ret |-> Panicked, io |-> <<>>]
                ELSE [self |-> reset(s), ret |-> d, io |-> <<>>]

\* HcSr04::distance
distance(s, checks) ==
    CASE s.mode = "Idle" ->
            [self |-> trigger(s).self, ret |-> WouldBlock, io |-> trigger(s).io]
      [] s.mode = "Triggered" ->
            [self |-> s, ret |-> WouldBlock, io |-> <<>>]
      [] s.mode = "Measurement" ->
            [self |-> s, ret |-> WouldBlock, io |-> <<>>]
      [] s.mode = "Timedout" ->
            [self |-> reset(s), ret |-> ReadyNone, io |-> <<>>]
      [] s.mode = "Completed" ->
            LET d == distance_mm(s, checks)
            IN  IF d = Panicked
                THEN [self |-> s, ret |-> Panicked, io |-> <<>>]
                ELSE [self |-> reset(s), ret |-> d, io |-> <<>>]

\* capture that stores the timestamp before it looks at the mode
capture_stores_first(s, ts) ==
    CASE s.mode = "Triggered" ->
            [self |-> [s EXCEPT !.t1 = ts, !.mode = "Measurement"], ret |-> OkUnit, io |-> <<>>]
      [] s.mode = "Measurement" ->
            [self |-> [s EXCEPT !.t2 = ts, !.mode = "Completed"], ret |-> OkUnit, io |-> <<>>]
      [] OTHER ->
            [self |-> [s EXCEPT !.t2 = ts], ret |-> WrongMode, io |-> <<>>]

\* capture that stores the falling edge over the rising edge
capture_one_field(s, ts) ==
    CASE s.mode = "Triggered" ->
            [self |-> [s EXCEPT !.t1 = ts, !.mode = "Measurement"], ret |-> OkUnit, io |-> <<>>]
      [] s.mode = "Measurement" ->
            [self |-> [s EXCEPT !.t1 = ts, !.mode = "Completed"], ret |-> OkUnit, io |-> <<>>]
      [] OTHER ->
            [self |-> s, ret |-> WrongMode, io |-> <<>>]

\* HcSr04::capture
capture(s, ts) ==
    CASE s.mode = "Triggered" ->
            [self |-> [s EXCEPT !.t1 = ts, !.mode = "Measurement"], ret |-> OkUnit, io |-> <<>>]
      [] s.mode = "Measurement" ->
            [self |-> [s EXCEPT !.t2 = ts, !.mode = "Completed"], ret |-> OkUnit, io |-> <<>>]
      [] OTHER ->
            [self |-> s, ret |-> WrongMode, io |-> <<>>]

\* timedout that accepts the call in every mode
timedout_any_mode(s) ==
    CASE s.mode = "Completed" ->
            [self |-> s, ret |-> OkUnit, io |-> <<>>]
      [] OTHER ->
            [self |-> [s EXCEPT !.mode = "Timedout"], ret |-> OkUnit, io |-> <<>>]

\* HcSr04::timedout
timedout(s) ==
    CASE s.mode = "Triggered" ->
            [self |-> [s EXCEPT !.mode = "Timedout"], ret |-> OkUnit, io |-> <<>>]
      [] s.mode = "Measurement" ->
            [self |-> [s EXCEPT !.mode = "Timedout"], ret |-> OkUnit, io |-> <<>>]
      [] s.mode = "Completed" ->
            [self |-> [s EXCEPT !.mode = "Completed"], ret |-> OkUnit, io |-> <<>>]
      [] OTHER ->
            [self |-> s, ret |-> WrongMode, io |-> <<>>]

\* cm that rounds to the nearest centimetre
cm_rounds(d) == DivU32(<<d[1] + ((d[2] + 5) \div Half), (d[2] + 5) % Half>>, 10)

\* Distance::cm
Distance_cm(d) == DivU32(d, 10)

\* Distance::mm
Distance_mm(d) == d

----------------------------------------------------------------------------
(* Bounds and inputs *)

\* trigger pulses explored per behaviour
MaxPulses == 2

\* late timedout calls explored per measurement
MaxLate == 2

\* timestamps passed to capture: small ticks (59 follows the counter's
\* maximum by the 60 ticks that separate 1000 and 1060), a 10 ms echo at
\* 1 MHz, a tick whose distance from 0 overflows the multiplication, and the
\* counter's maximum
Ticks == {FromNat(0), FromNat(59), FromNat(1000), FromNat(1060), FromNat(10000),
          FromNat(30000000), MaxU32}

\* frequencies passed to new: below 1 kHz, 1 kHz, 1 MHz, 8 MHz, u32::MAX
Frequencies == {FromNat(999), FromNat(1000), FromNat(1000000), FromNat(8000000), MaxU32}

\* interrupts explored during one poll
MaxIrqs == 2

\* timestamps passed to capture while polls are preempted
PreemptTicks == {FromNat(1000), FromNat(1060), MaxU32}

\* timer frequencies of the preempted driver: one that makes hz / 1000 zero, one that does not
PreemptFrequencies == {FromNat(999), FromNat(1000000)}

\* timestamps the echo interrupt passes to capture
EchoTicks == {FromNat(1000), FromNat(1060)}

\* the largest small millimetre value wrapped in a Distance
MaxMm == 40

\* millimetre values wrapped in a Distance: 0..MaxMm and large ones
Distances == {FromNat(n) : n \in 0..MaxMm} \cup {FromNat(171605), FromNat(30000000), MaxU32}

----------------------------------------------------------------------------
(* The state machine *)

\* a panic ends the program: no entry point runs after it
Halted == ret.kind = "panic"

\* no poll in progress
NoTask == [pc |-> "out", m |-> "Idle", r1 |-> Zero, r2 |-> Zero, d |-> Zero,
           todo |-> {}, start |-> new(Zero).self, log |-> <<>>]

\* the echo line at rest
NoEcho == [line |-> "low", armed |-> FALSE, n |-> 0, src |-> <<>>, read |-> <<>>,
           missed |-> 0, overlap |-> FALSE]

Snapshot == [self |-> self, op |-> call.op, kind |-> ret.kind]

InitWith(frequencies) ==
    /\ \E f \in frequencies :
          /\ self = new(f).self
          /\ ret = new(f).ret
          /\ io = new(f).io
    /\ overflow_checks \in BOOLEAN
    /\ call = [op |-> "new", ts |-> NoTs]
    /\ pre = [self |-> self, op |-> "none", kind |-> "none"]
    /\ pulses = 0
    /\ readys = 0
    /\ edges = <<>>
    /\ late = 0
    /\ cuts = 0
    /\ task = NoTask
    /\ echo = NoEcho

Init == InitWith(Frequencies)

\* a call of distance()
DoDistance ==
    LET r == distance(self, overflow_checks)
    IN  /\ ~Halted
        /\ self.mode = "Idle" => pulses < MaxPulses
        /\ pre' = Snapshot
        /\ call' = [op |-> "distance", ts |-> NoTs]
        /\ self' = r.self
        /\ ret' = r.ret
        /\ io' = r.io
        /\ pulses' = IF self.mode = "Idle" THEN pulses + 1 ELSE pulses
        /\ readys' = IF IsReady(r.ret) THEN readys + 1 ELSE readys
        /\ edges' = IF self.mode = "Idle" THEN <<>> ELSE edges
        /\ late' = IF self.mode = "Idle" THEN 0 ELSE late
        /\ cuts' = IF self.mode = "Idle" THEN 0 ELSE cuts
        /\ UNCHANGED overflow_checks

\* a call of capture(ts)
DoCapture(ts) ==
    LET r == capture(self, ts)
    IN  /\ ~Halted
        /\ pre' = Snapshot
        /\ call' = [op |-> "capture", ts |-> ts]
        /\ self' = r.self
        /\ ret' = r.ret
        /\ io' = r.io
        /\ edges' = IF r.ret = OkUnit THEN Append(edges, ts) ELSE edges
        /\ UNCHANGED <<overflow_checks, pulses, readys, late, cuts>>

\* a call of timedout()
DoTimedout ==
    LET r == timedout(self)
    IN  /\ ~Halted
        /\ self.mode = "Completed" => late < MaxLate
        /\ pre' = Snapshot
        /\ call' = [op |-> "timedout", ts |-> NoTs]
        /\ self' = r.self
        /\ ret' = r.ret
        /\ io' = r.io
        /\ late' = IF self.mode = "Completed" THEN late + 1 ELSE late
        /\ cuts' = IF self.mode \in {"Triggered", "Measurement"} THEN cuts + 1 ELSE cuts
        /\ UNCHANGED <<overflow_checks, pulses, readys, edges>>

(* The public methods called by any caller. A caller gets the Result of     *)
(* capture and timedout and goes on; one that stops on Err(WrongMode), as   *)
(* the handlers of the examples do with expect, is the behaviour that       *)
(* stutters from there on.                                                  *)

\* a caller polls distance()
CallDistance == DoDistance /\ UNCHANGED <<task, echo>>

\* a caller calls capture(ts)
CallCapture(ts) == DoCapture(ts) /\ UNCHANGED <<task, echo>>

\* a caller calls timedout()
CallTimedout == DoTimedout /\ UNCHANGED <<task, echo>>

Next ==
    \/ CallDistance
    \/ \E ts \in Ticks : CallCapture(ts)
    \/ CallTimedout

Spec == Init /\ [][Next]_vars

\* the caller answers a trigger pulse with a call of capture or timedout
Deliver ==
    /\ self.mode \in {"Triggered", "Measurement"}
    /\ (CallTimedout \/ \E ts \in Ticks : CallCapture(ts))

\* the caller keeps polling and the environment keeps answering
LiveSpec == Init /\ [][Next]_vars /\ WF_vars(CallDistance) /\ WF_vars(Deliver)

----------------------------------------------------------------------------
(* The accessors of Distance, applied to the values of Distances *)

UnitsInit ==
    /\ \E f \in Frequencies : self = new(f).self
    /\ \E d \in Distances :
          /\ call = [op |-> "Distance", ts |-> d]
          /\ ret = [kind |-> "Distance", d |-> d]
    /\ overflow_checks \in BOOLEAN
    /\ io = <<>>
    /\ pre = [self |-> self, op |-> "none", kind |-> "none"]
    /\ pulses = 0
    /\ readys = 0
    /\ edges = <<>>
    /\ late = 0
    /\ cuts = 0
    /\ task = NoTask
    /\ echo = NoEcho

\* the caller reads the Distance as centimetres
CallCm ==
    /\ call.op = "Distance"
    /\ pre' = Snapshot
    /\ call' = [op |-> "cm", ts |-> call.ts]
    /\ ret' = [kind |-> "u32", d |-> Distance_cm(call.ts)]
    /\ UNCHANGED <<self, overflow_checks, io, pulses, readys, edges, late, cuts, task, echo>>

\* the caller reads the Distance as millimetres
CallMm ==
    /\ call.op = "Distance"
    /\ pre' = Snapshot
    /\ call' = [op |-> "mm", ts |-> call.ts]
    /\ ret' = [kind |-> "u32", d |-> Distance_mm(call.ts)]
    /\ UNCHANGED <<self, overflow_checks, io, pulses, readys, edges, late, cuts, task, echo>>

UnitsNext ==
    \/ CallCm
    \/ CallMm

SpecUnits == UnitsInit /\ [][UnitsNext]_vars

----------------------------------------------------------------------------
(* distance() statement by statement, preempted by capture and timedout:   *)
(* each of these calls runs to completion between two steps of the poll     *)

InPoll == task.pc # "out"

\* the fields reset stores to
ResetStores == {"t1", "t2", "mode"}

\* the first statement of the arm that matches the mode
FirstStep(m) ==
    CASE m = "Idle" -> "set_high"
      [] m \in {"Triggered", "Measurement"} -> "wait"
      [] m = "Timedout" -> "reset"
      [] m = "Completed" -> "read_t2"

PreemptFrame == UNCHANGED <<overflow_checks, edges, late, cuts, echo>>

\* match self.mode
PollEnter ==
    /\ ~Halted
    /\ ~InPoll
    /\ self.mode = "Idle" => pulses < MaxPulses
    /\ task' = [pc |-> FirstStep(self.mode), m |-> self.mode, r1 |-> Zero, r2 |-> Zero,
                d |-> Zero, todo |-> ResetStores, start |-> self, log |-> <<>>]
    /\ io' = <<>>
    /\ UNCHANGED <<self, call, ret, pre, pulses, readys>>
    /\ PreemptFrame

\* one statement that writes the struct or the pin and moves on
Statement(at, next, s, ops) ==
    /\ task.pc = at
    /\ task' = [task EXCEPT !.pc = next]
    /\ self' = s
    /\ io' = io \o ops
    /\ UNCHANGED <<call, ret, pre, pulses, readys>>
    /\ PreemptFrame

\* trigger: self.pin.set_high()
StepSetHigh == Statement("set_high", "delay", [self EXCEPT !.pin = "high"], <<PinHigh>>)

\* trigger: self.delay.delay_us(10)
StepDelay == Statement("delay", "set_low", self, <<DelayUs(TriggerPulseUs)>>)

\* trigger: self.pin.set_low()
StepSetLow == Statement("set_low", "write_triggered", [self EXCEPT !.pin = "low"], <<PinLow>>)

\* trigger: self.mode = Mode::Triggered
StepWriteTriggered ==
    Statement("write_triggered", "return", [self EXCEPT !.mode = "Triggered"], <<>>)

\* the Triggered and Measurement arms
StepWait == Statement("wait", "return", wait_arm(self, task.m), <<>>)

\* the Completed arm reads self.t2
StepReadT2 ==
    /\ task.pc = "read_t2"
    /\ task' = [task EXCEPT !.pc = "read_t1", !.r2 = self.t2]
    /\ UNCHANGED <<self, io, call, ret, pre, pulses, readys>>
    /\ PreemptFrame

\* the Completed arm reads self.t1
StepReadT1 ==
    /\ task.pc = "read_t1"
    /\ task' = [task EXCEPT !.pc = "compute", !.r1 = self.t1]
    /\ UNCHANGED <<self, io, call, ret, pre, pulses, readys>>
    /\ PreemptFrame

\* the Completed arm computes d, or panics
StepCompute ==
    LET d == distance_mm([self EXCEPT !.t1 = task.r1, !.t2 = task.r2], overflow_checks)
    IN  /\ task.pc = "compute"
        /\ IF d = Panicked
           THEN /\ task' = [task EXCEPT !.pc = "out"]
                /\ call' = [op |-> "distance", ts |-> NoTs]
                /\ ret' = Panicked
                /\ pre' = [self |-> task.start, op |-> call.op, kind |-> ret.kind]
           ELSE /\ task' = [task EXCEPT !.pc = "reset", !.d = d.d]
                /\ UNCHANGED <<call, ret, pre>>
        /\ UNCHANGED <<self, io, pulses, readys>>
        /\ PreemptFrame

\* reset: the struct after the stores to the given fields
Stored(s, fields) ==
    [s EXCEPT !.t1 = IF "t1" \in fields THEN Zero ELSE @,
              !.t2 = IF "t2" \in fields THEN Zero ELSE @,
              !.mode = IF "mode" \in fields THEN "Idle" ELSE @]

\* reset: some of the stores not yet made are made. The three fields are
\* plain memory, so a build may emit their stores in any order and merge
\* neighbours into one store: the unoptimised build stores t1, t2 and mode in
\* source order, the optimised one stores mode first and then t1 and t2 at once
StepResetStore ==
    /\ task.pc = "reset"
    /\ \E fields \in SUBSET task.todo \ {{}} :
          /\ self' = Stored(self, fields)
          /\ task' = [task EXCEPT !.todo = @ \ fields,
                                  !.pc = IF task.todo = fields THEN "return" ELSE "reset"]
    /\ UNCHANGED <<io, call, ret, pre, pulses, readys>>
    /\ PreemptFrame

\* the value of the arm that was matched
ArmValue ==
    CASE task.m = "Timedout" -> ReadyNone
      [] task.m = "Completed" -> ReadySome(task.d)
      [] OTHER -> WouldBlock

\* distance() returns
StepReturn ==
    /\ task.pc = "return"
    /\ task' = [task EXCEPT !.pc = "out"]
    /\ call' = [op |-> "distance", ts |-> NoTs]
    /\ ret' = ArmValue
    /\ pre' = [self |-> task.start, op |-> call.op, kind |-> ret.kind]
    /\ pulses' = IF task.m = "Idle" THEN pulses + 1 ELSE pulses
    /\ readys' = IF IsReady(ArmValue) THEN readys + 1 ELSE readys
    /\ UNCHANGED <<self, io>>
    /\ PreemptFrame

\* a call of capture or timedout with outcome r: logged when it preempts a poll
Interrupt(op, ts, r) ==
    /\ ~Halted
    /\ self' = r.self
    /\ IF InPoll
       THEN /\ Len(task.log) < MaxIrqs
            /\ task' = [task EXCEPT !.log = Append(@, [op |-> op, ts |-> ts, kind |-> r.ret.kind])]
            /\ UNCHANGED <<call, ret, pre>>
       ELSE /\ call' = [op |-> op, ts |-> ts]
            /\ ret' = r.ret
            /\ pre' = Snapshot
            /\ UNCHANGED task
    /\ UNCHANGED <<io, pulses, readys>>
    /\ PreemptFrame

\* capture(ts) is called from interrupt context
IrqCapture(ts) == Interrupt("capture", ts, capture(self, ts))

\* timedout() is called from interrupt context
IrqTimedout == Interrupt("timedout", NoTs, timedout(self))

PreemptNext ==
    \/ PollEnter
    \/ StepSetHigh
    \/ StepDelay
    \/ StepSetLow
    \/ StepWriteTriggered
    \/ StepWait
    \/ StepReadT2
    \/ StepReadT1
    \/ StepCompute
    \/ StepResetStore
    \/ StepReturn
    \/ \E ts \in PreemptTicks : IrqCapture(ts)
    \/ IrqTimedout

PreemptInit == InitWith(PreemptFrequencies)

SpecPreempt == PreemptInit /\ [][PreemptNext]_vars

----------------------------------------------------------------------------
(* The driver wired to an echo line: every trigger pulse is answered by at  *)
(* most one echo pulse, each edge of which is delivered to capture or lost  *)

EchoFrame == UNCHANGED task

\* the edge the echo line makes next: the rising edge of a new pulse when a
\* trigger pulse is unanswered, the falling edge of the pulse in progress
NextEdge ==
    IF echo.line = "low"
    THEN [pulse |-> echo.n + 1, type |-> "rising"]
    ELSE [pulse |-> echo.n, type |-> "falling"]

EdgeEnabled == echo.line = "high" \/ echo.armed

\* the echo line after its next edge
AfterEdge ==
    IF echo.line = "low"
    THEN [echo EXCEPT !.line = "high", !.armed = FALSE, !.n = @ + 1]
    ELSE [echo EXCEPT !.line = "low"]

\* the caller polls distance(); a trigger pulse sent while the echo line
\* is high may or may not be answered by the sensor
EchoPoll ==
    /\ DoDistance
    /\ EchoFrame
    /\ \E answered \in (IF echo.line = "high" THEN BOOLEAN ELSE {TRUE}) :
          echo' = CASE self.mode = "Idle" ->
                         [echo EXCEPT !.armed = @ \/ answered,
                                      !.overlap = @ \/ echo.line = "high"]
                    [] self.mode \in {"Completed", "Timedout"} /\ ret' # Panicked ->
                         [echo EXCEPT !.src = <<>>, !.read = echo.src]
                    [] OTHER -> echo

\* an edge of the echo line is delivered: capture(ts) is called
EdgeDelivered(ts) ==
    /\ EdgeEnabled
    /\ DoCapture(ts)
    /\ EchoFrame
    /\ echo' = IF ret' = OkUnit
               THEN [AfterEdge EXCEPT !.src = Append(@, NextEdge)]
               ELSE AfterEdge

\* an edge of the echo line is not delivered: no call is made
EdgeMissed ==
    /\ ~Halted
    /\ EdgeEnabled
    /\ echo' = [AfterEdge EXCEPT !.missed = @ + 1]
    /\ UNCHANGED <<self, overflow_checks, call, ret, io, pre, pulses, readys, edges,
                   late, cuts, task>>

\* the guard timeout is delivered: timedout() is called
EchoTimedout == DoTimedout /\ EchoFrame /\ UNCHANGED echo

EchoNext ==
    \/ EchoPoll
    \/ \E ts \in EchoTicks : EdgeDelivered(ts)
    \/ EdgeMissed
    \/ EchoTimedout

EchoInit == InitWith(PreemptFrequencies)

SpecEcho == EchoInit /\ [][EchoNext]_vars

----------------------------------------------------------------------------
(* Properties.  `pre` is the state before the last call, `self`, `ret` and *)
(* `io` the state, the return value and the pin/delay operations after it. *)

Polled == call.op = "distance"
Captured == call.op = "capture"
TimedOutCalled == call.op = "timedout"

TriggerPulse == <<PinHigh, DelayUs(TriggerPulseUs), PinLow>>

\* C1: capture in Triggered returns Ok, stores ts in t1 and moves to
\* Measurement; capture in Measurement returns Ok, stores ts in t2, keeps t1
\* and moves to Completed; and the poll that follows the two captures
\* returns Ok(Some(distance)) and ends in Idle, for all timestamps.
C1_CaptureThenPollReturnsDistance ==
    /\ (Captured /\ pre.self.mode = "Triggered") =>
          /\ ret = OkUnit
          /\ self = [pre.self EXCEPT !.t1 = call.ts, !.mode = "Measurement"]
    /\ (Captured /\ pre.self.mode = "Measurement") =>
          /\ ret = OkUnit
          /\ self = [pre.self EXCEPT !.t2 = call.ts, !.mode = "Completed"]
    /\ (Polled /\ pre.self.mode = "Idle") => ret = WouldBlock
    /\ (Polled /\ pre.self.mode = "Completed" /\ late = 0) =>
          /\ ret.kind = "OkSome"
          /\ self.mode = "Idle"

\* C2: capture in Idle, Completed or Timedout returns WrongMode and changes
\* nothing of the struct, whatever the timestamp.
C2_CaptureRejectedLeavesState ==
    (Captured /\ pre.self.mode \in {"Idle", "Completed", "Timedout"}) =>
        /\ ret = WrongMode
        /\ self = pre.self

\* a capture rejected in Completed with a timestamp that is neither stored tick
C2_Witness ==
    /\ Captured
    /\ pre.self.mode = "Completed"
    /\ ret = WrongMode
    /\ call.ts # pre.self.t1
    /\ call.ts # pre.self.t2

\* the poll of the same two edges with no timedout call delivered
PollWithoutTimeout ==
    LET triggered == trigger(new(self.hz).self).self
        completed == capture(capture(triggered, edges[1]).self, edges[2]).self
    IN  distance(completed, overflow_checks).ret

\* C3: timedout in Completed returns Ok and changes nothing, and the next
\* poll returns Ok(Some(d)) with the d of the run without the timeout,
\* never Ok(None), however many late timedout calls were made.
C3_LateTimeoutKeepsResult ==
    /\ (TimedOutCalled /\ pre.self.mode = "Completed") =>
          /\ ret = OkUnit
          /\ self = pre.self
    /\ (Polled /\ pre.self.mode = "Completed" /\ late > 0) =>
          /\ ret.kind = "OkSome"
          /\ ret = PollWithoutTimeout

\* C4: timedout in Triggered or Measurement returns Ok and moves to Timedout;
\* the next poll returns Ok(None), not WouldBlock, clears both ticks and
\* returns to Idle.
C4_TimeoutThenPollReturnsNone ==
    /\ (TimedOutCalled /\ pre.self.mode \in {"Triggered", "Measurement"}) =>
          /\ ret = OkUnit
          /\ self = [pre.self EXCEPT !.mode = "Timedout"]
    /\ (Polled /\ pre.self.mode = "Timedout") =>
          /\ ret = ReadyNone
          /\ ret # WouldBlock
          /\ self.t1 = Zero
          /\ self.t2 = Zero
          /\ self.mode = "Idle"

\* a poll right after a timedout call that cut a measurement with a rising edge stored
C4_Witness ==
    /\ Polled
    /\ pre.self.mode = "Timedout"
    /\ pre.op = "timedout"
    /\ pre.self.t1 # Zero
    /\ ret = ReadyNone

\* C5: timedout returns Ok exactly in Triggered, Measurement and Completed;
\* in Idle and Timedout it returns WrongMode and changes nothing.
C5_TimedoutAcceptedOnlyWhenOutstanding ==
    TimedOutCalled =>
        /\ ret = OkUnit <=> pre.self.mode \in {"Triggered", "Measurement", "Completed"}
        /\ pre.self.mode \in {"Idle", "Timedout"} =>
              /\ ret = WrongMode
              /\ self = pre.self

\* a second timedout call, made in Timedout, is rejected
C5_Witness ==
    /\ TimedOutCalled
    /\ pre.self.mode = "Timedout"
    /\ pre.op = "timedout"
    /\ ret = WrongMode

\* C6: a poll emits the trigger pulse (set_high, delay_us, set_low, in that
\* order) exactly when the sensor is Idle; that poll returns WouldBlock and
\* leaves the sensor Triggered with the pin low; other polls emit nothing.
C6_PulseExactlyWhenIdle ==
    Polled =>
        /\ io = TriggerPulse <=> pre.self.mode = "Idle"
        /\ pre.self.mode = "Idle" =>
              /\ ret = WouldBlock
              /\ self.mode = "Triggered"
              /\ self.pin = "low"
        /\ pre.self.mode # "Idle" => io = <<>>

\* the second measurement's trigger pulse
C6_Witness ==
    /\ Polled
    /\ pre.self.mode = "Idle"
    /\ io = TriggerPulse
    /\ pulses = 2

\* C7: every poll made in Triggered or Measurement returns WouldBlock and
\* leaves the mode and both ticks unchanged, consecutive polls included.
C7_PollWhileMeasuringIsNoOp ==
    (Polled /\ pre.self.mode \in {"Triggered", "Measurement"}) =>
        /\ ret = WouldBlock
        /\ self.mode = pre.self.mode
        /\ self.t1 = pre.self.t1
        /\ self.t2 = pre.self.t2

\* two consecutive polls in Measurement, a rising edge stored
C7_Witness ==
    /\ Polled
    /\ pre.op = "distance"
    /\ pre.kind = "WouldBlock"
    /\ pre.self.mode = "Measurement"
    /\ pre.self.t1 # Zero
    /\ ret = WouldBlock

\* C8: a poll that returns Ok(..) leaves the sensor Idle; a capture or a
\* timedout call right after it returns WrongMode; capture and timedout are
\* accepted only while a trigger pulse has no Ok(..) poll yet.
C8_NoDoubleDelivery ==
    /\ (Polled /\ IsReady(ret)) => self.mode = "Idle"
    /\ (call.op \in {"capture", "timedout"} /\ pre.op = "distance" /\ IsReady([kind |-> pre.kind]))
          => ret = WrongMode
    /\ (call.op \in {"capture", "timedout"} /\ ret = OkUnit) => pulses = readys + 1

\* a capture right after a poll that delivered a distance
C8_Witness ==
    /\ Captured
    /\ pre.op = "distance"
    /\ pre.kind = "OkSome"
    /\ ret = WrongMode

\* C9: the poll made in Completed or Timedout returns Ok(..) and moves to
\* Idle; two consecutive polls never both return Ok(..); trigger pulses minus
\* Ok(..) polls is 0 in Idle and 1 in every other mode.
C9_DrainedExactlyOnce ==
    /\ (Polled /\ pre.self.mode \in {"Completed", "Timedout"}) =>
          /\ IsReady(ret)
          /\ self.mode = "Idle"
    /\ ~(Polled /\ IsReady(ret) /\ pre.op = "distance" /\ IsReady([kind |-> pre.kind]))
    /\ pulses - readys = IF self.mode = "Idle" THEN 0 ELSE 1

\* C10: no entry point panics: distance returns WouldBlock or Ok(..), capture
\* and timedout return Ok or WrongMode, for every pair of timestamps and
\* every frequency.
C10_NoPanic ==
    /\ ret.kind # "panic"
    /\ Polled => ret.kind \in {"WouldBlock", "OkSome", "OkNone"}
    /\ call.op \in {"capture", "timedout"} => ret.kind \in {"Ok", "WrongMode"}

----------------------------------------------------------------------------
(* Exact arithmetic on base-256 digit sequences, least significant first,  *)
(* for the values of the distance formula that exceed 32 bits.             *)

Digits(a) == <<a[2] % 256, a[2] \div 256, a[1] % 256, a[1] \div 256>>

Digit(x, i) == IF i \in 1..Len(x) THEN x[i] ELSE 0

\* the sum of the digit products of column k, for i = 1..n
RECURSIVE ColumnSum(_, _, _, _)
ColumnSum(x, y, k, n) ==
    IF n = 0 THEN 0 ELSE Digit(x, n) * Digit(y, k + 1 - n) + ColumnSum(x, y, k, n - 1)

RECURSIVE MulCarry(_, _, _)
MulCarry(x, y, k) ==
    IF k = 1 THEN 0 ELSE (ColumnSum(x, y, k - 1, k - 1) + MulCarry(x, y, k - 1)) \div 256

BigMul(x, y) ==
    [k \in 1..(Len(x) + Len(y)) |-> (ColumnSum(x, y, k, k) + MulCarry(x, y, k)) % 256]

RECURSIVE AddCarry(_, _, _)
AddCarry(x, y, k) ==
    IF k = 1 THEN 0 ELSE (Digit(x, k - 1) + Digit(y, k - 1) + AddCarry(x, y, k - 1)) \div 256

BigAdd(x, y) ==
    LET n == (IF Len(x) > Len(y) THEN Len(x) ELSE Len(y)) + 1
    IN  [k \in 1..n |-> (Digit(x, k) + Digit(y, k) + AddCarry(x, y, k)) % 256]

RECURSIVE LeqFrom(_, _, _)
LeqFrom(x, y, k) ==
    IF k = 0 THEN TRUE
    ELSE IF Digit(x, k) # Digit(y, k) THEN Digit(x, k) < Digit(y, k)
    ELSE LeqFrom(x, y, k - 1)

BigLeq(x, y) == LeqFrom(x, y, IF Len(x) > Len(y) THEN Len(x) ELSE Len(y))

\* u32 order and u32 arithmetic without wraparound
LessEq(a, b) == BigLeq(Digits(a), Digits(b))
Less(a, b) == ~LessEq(b, a)

\* a + e as <<carry out of bit 31, the low 32 bits>>
AddU32(a, e) ==
    LET lo == a[2] + e[2]
        hi == a[1] + e[1] + (lo \div Half)
    IN  <<hi \div Half, <<hi % Half, lo % Half>>>>

\* b - a for a <= b
PlainSub(b, a) ==
    LET borrow == IF b[2] < a[2] THEN 1 ELSE 0
    IN  <<b[1] - a[1] - borrow, b[2] + borrow * Half - a[2]>>

\* the ticks elapsed from t1 to t2 on a counter that wrapped at most once
ElapsedTicks(t1, t2) ==
    IF LessEq(t1, t2) THEN PlainSub(t2, t1)
    ELSE AddU32(PlainSub(MaxU32, t1), AddU32(t2, FromNat(1))[2])[2]

\* C11: in Completed the poll returns Some(d) with d the value of
\* elapsed * 171605 / hz to the millimetre: |d * hz - elapsed * 171605| <= hz.
C11_DistanceMatchesFormula ==
    (Polled /\ pre.self.mode = "Completed" /\ ret.kind = "OkSome") =>
        LET exact == BigMul(Digits(ElapsedTicks(pre.self.t1, pre.self.t2)),
                            Digits(FromNat(SoundFactor)))
            code == BigMul(Digits(ret.d), Digits(self.hz))
            hz == Digits(self.hz)
        IN  /\ BigLeq(code, BigAdd(exact, hz))
            /\ BigLeq(exact, BigAdd(code, hz))

\* C12: the product (t2 - t1 mod 2^32) * (171605 / 1000) of every poll in
\* Completed fits in a u32.
C12_ProductFitsU32 ==
    (Polled /\ pre.self.mode = "Completed") =>
        BigLeq(BigMul(Digits(ElapsedTicks(pre.self.t1, pre.self.t2)),
                      Digits(FromNat(SoundFactor \div Kilo))),
               Digits(MaxU32))

\* the outcome of polling a measurement whose edges were captured at a and b
PollOf(a, b) ==
    LET triggered == trigger(new(self.hz).self).self
        completed == capture(capture(triggered, a).self, b).self
    IN  distance(completed, overflow_checks).ret

\* C13: a poll of edges t2 < t1 (the counter wrapped once in between) gives
\* the outcome of every pair a <= b that is as many ticks apart: t1 + (b - a)
\* carries out of 32 bits and lands on t2.
C13_WraparoundSameAsUnwrapped ==
    (Polled /\ pre.self.mode = "Completed" /\ Less(pre.self.t2, pre.self.t1)) =>
        \A a \in Ticks, b \in Ticks :
            (LessEq(a, b) /\ AddU32(pre.self.t1, PlainSub(b, a)) = <<1, pre.self.t2>>)
                => ret = PollOf(a, b)

\* edges at u32::MAX and 59 polled to a distance, 60 ticks apart as 1000 and 1060
C13_Witness ==
    /\ Polled
    /\ pre.self.mode = "Completed"
    /\ pre.self.t1 = MaxU32
    /\ pre.self.t2 = FromNat(59)
    /\ AddU32(pre.self.t1, PlainSub(FromNat(1060), FromNat(1000))) = <<1, pre.self.t2>>
    /\ ret.kind = "OkSome"
    /\ ret.d # Zero
    /\ ret = PollOf(FromNat(1000), FromNat(1060))

\* C18: whenever the sensor is Idle or Triggered both edge ticks are 0.
C18_TicksClearedInIdle ==
    self.mode \in {"Idle", "Triggered"} => (self.t1 = Zero /\ self.t2 = Zero)

\* Idle again after the poll of a measurement with two nonzero edges
C18_Witness ==
    /\ Polled
    /\ pre.self.mode = "Completed"
    /\ pre.self.t1 # Zero
    /\ pre.self.t2 # Zero
    /\ IsReady(ret)
    /\ self.mode = "Idle"

\* C19 as stated: only a poll in Idle touches the pin or the delay (new,
\* capture, timedout and polls in other modes do not), and hz never changes.
C19_OnlyTriggerTouchesPin ==
    /\ io # <<>> => (Polled /\ pre.self.mode = "Idle")
    /\ self.hz = pre.self.hz

\* C19 amended: new drives the pin low once; after construction only a
\* poll in Idle touches the pin or the delay, with the trigger pulse; hz
\* never changes.
C19_OnlyNewAndTriggerTouchPin ==
    /\ call.op = "new" => io = <<PinLow>>
    /\ (call.op # "new" /\ io # <<>>) =>
          (Polled /\ pre.self.mode = "Idle" /\ io = TriggerPulse)
    /\ self.hz = pre.self.hz

\* an accepted timedout call of the second measurement touched nothing
C19_Witness ==
    /\ TimedOutCalled
    /\ ret = OkUnit
    /\ pulses = 2
    /\ io = <<>>
    /\ self.pin = "low"

\* C17: mm() returns the stored value; cm() returns mm() / 10 rounded toward
\* zero: 10 * cm <= mm < 10 * cm + 10; 24 and 29 give 2, 30 gives 3.
C17_UnitAccessors ==
    /\ call.op = "mm" => ret.d = call.ts
    /\ call.op = "cm" =>
          LET tens == BigMul(Digits(ret.d), <<10>>)
          IN  /\ BigLeq(tens, Digits(call.ts))
              /\ ~BigLeq(BigAdd(tens, <<10>>), Digits(call.ts))
    /\ (call.op = "cm" /\ call.ts \in {FromNat(24), FromNat(29)}) => ret.d = FromNat(2)
    /\ (call.op = "cm" /\ call.ts = FromNat(30)) => ret.d = FromNat(3)

\* cm() of Distance(29)
C17_Witness ==
    /\ call.op = "cm"
    /\ call.ts = FromNat(29)
    /\ ret.d = FromNat(2)

\* C20: a poll returns Some(d) only after exactly two accepted captures and
\* no timedout accepted in Triggered or Measurement since the last trigger
\* pulse, with d computed from the first as rising and the second as falling
\* edge; a poll returns None only after a timedout accepted in Triggered or
\* Measurement since the last trigger pulse.
C20_ResultProvenance ==
    /\ (Polled /\ ret.kind = "OkSome") =>
          /\ Len(edges) = 2
          /\ cuts = 0
          /\ pre.self.t1 = edges[1]
          /\ pre.self.t2 = edges[2]
          /\ ret = distance_mm([pre.self EXCEPT !.t1 = edges[1], !.t2 = edges[2]],
                               overflow_checks)
    /\ (Polled /\ ret.kind = "OkNone") => cuts = 1

\* the second measurement delivers a nonzero distance from two distinct edges
C20_Witness ==
    /\ Polled
    /\ ret.kind = "OkSome"
    /\ ret.d # Zero
    /\ pulses = 2
    /\ Len(edges) = 2
    /\ edges[1] # edges[2]
    /\ edges[1] # Zero

\* C16: while the caller keeps polling and the environment answers every
\* trigger pulse, every measurement in progress leads to a poll that returns
\* Ok(..) and leaves the sensor Idle.
C16_Progress ==
    (self.mode # "Idle") ~> (Polled /\ IsReady(ret) /\ self.mode = "Idle")

\* the handler call c made on struct s
IrqOf(s, c) == IF c.op = "capture" THEN capture(s, c.ts) ELSE timedout(s)

\* the logged calls i..n run one after another from s: the struct they
\* leave, and whether each returned what the log says
RECURSIVE RunIrqs(_, _, _, _)
RunIrqs(s, log, i, n) ==
    IF i > n THEN [self |-> s, ok |-> TRUE]
    ELSE LET r == IrqOf(s, log[i])
         IN  IF r.ret.kind # log[i].kind THEN [self |-> s, ok |-> FALSE]
             ELSE RunIrqs(r.self, log, i + 1, n)

\* the poll run atomically after the first j logged calls and before the rest
\* gives the returns, the pin operations and the struct of the preempted run
SerialAt(j) ==
    LET before == RunIrqs(task.start, task.log, 1, j)
        poll == distance(before.self, overflow_checks)
        after == RunIrqs(poll.self, task.log, j + 1, Len(task.log))
    IN  /\ before.ok
        /\ poll.ret = ret
        /\ poll.io = io
        /\ IF poll.ret = Panicked
           THEN j = Len(task.log) /\ self = poll.self
           ELSE after.ok /\ after.self = self

\* C14: when a poll preempted by capture and timedout calls ends, its return
\* value, the handlers' return values and the struct equal those of a run in
\* which the same calls execute atomically one after another.
C14_PreemptedPollIsSerial ==
    (Polled /\ ~InPoll) => \E j \in 0..Len(task.log) : SerialAt(j)

\* a poll that matched Triggered and returned after both edges were captured
C14_Witness ==
    /\ Polled
    /\ ~InPoll
    /\ task.m = "Triggered"
    /\ Len(task.log) = 2
    /\ task.log[1].kind = "Ok"
    /\ task.log[2].kind = "Ok"
    /\ self.mode = "Completed"
    /\ ret = WouldBlock

\* the two edges are the rising and the falling edge of one echo pulse
OnePulse(src) ==
    /\ Len(src) = 2
    /\ src[1].type = "rising"
    /\ src[2].type = "falling"
    /\ src[1].pulse = src[2].pulse

\* C15: once an edge of an echo pulse has not been delivered to capture, no
\* poll returns Ok(Some(d)) computed from timestamps other than the rising and
\* the falling edge of one and the same echo pulse.
C15_MissedEdgeNeverCorrupts ==
    (echo.missed > 0 /\ Polled /\ ret.kind = "OkSome") => OnePulse(echo.read)

====
